---- MODULE Spec2Model ----
(***************************************************************************)
(* ddscubemap: main() of src/ddscubemap.cpp as a state machine.            *)
(*                                                                         *)
(* The program parses its arguments, then for each of six cube sides reads *)
(* a DDS file, checks it, and appends its payload to the result file,      *)
(* whose header is the first side's header with the cubemap bits set.      *)
(*                                                                         *)
(* Files are byte sequences.  The header is decoded from, and encoded to,  *)
(* little-endian bytes (the struct overlay of line 125 on a little-endian  *)
(* host).  TLC's integers are 32-bit signed, so the files enumerated here  *)
(* keep every 32-bit field below 2^31.                                     *)
(***************************************************************************)
EXTENDS Integers, Sequences, FiniteSets, TLC

VARIABLES
  argv,   \* theArgVec[1 .. theNbArgs-1]; theArgVec[theNbArgs] is the null pointer
  fs,     \* the files the run has opened so far: path -> file
  st,     \* the program state of the run
  fs2,    \* a second execution, used to compare two executions whose
  st2     \* inputs differ only in the declared MipMapCount

vars == <<argv, fs, st, fs2, st2>>

---------------------------------------------------------------------------
(* Bounds of the model *)

MaxArgs == 2
MaxDim == 2
MaxPayload == 2
MaxMipDim == 12

(* Constants of the program *)

NbSides == 6
HeaderSize == 124
PixelFormatSize == 32
DDSCompleteCubemap == 65024
HeaderEnd == 128
MagicLen == 4
HeaderOffset == 4

---------------------------------------------------------------------------
(* Bytes and 32-bit words *)

Magic == <<68, 68, 83, 32>>

LE32(v) ==
  <<v % 256, (v \div 256) % 256, (v \div 65536) % 256, (v \div 16777216) % 256>>

\* the 32-bit little-endian word at 0-based byte offset off
U32At(buf, off) ==
  buf[off + 1] + 256 * buf[off + 2] + 65536 * buf[off + 3] + 16777216 * buf[off + 4]

RECURSIVE BitOr(_, _)
BitOr(a, b) ==
  IF a = 0 THEN b
  ELSE IF b = 0 THEN a
  ELSE (IF a % 2 = 1 \/ b % 2 = 1 THEN 1 ELSE 0) + 2 * BitOr(a \div 2, b \div 2)

RECURSIVE BitAnd(_, _)
BitAnd(a, b) ==
  IF a = 0 \/ b = 0 THEN 0
  ELSE (IF a % 2 = 1 /\ b % 2 = 1 THEN 1 ELSE 0) + 2 * BitAnd(a \div 2, b \div 2)

---------------------------------------------------------------------------
(* DDSFileHeader *)

\* *(DDSFileHeader* )&aBuffer[4]: the struct laid over bytes 4..127
DecodeHeader(buf) ==
  [ Size              |-> U32At(buf, HeaderOffset + 0),
    Flags             |-> U32At(buf, HeaderOffset + 4),
    Height            |-> U32At(buf, HeaderOffset + 8),
    Width             |-> U32At(buf, HeaderOffset + 12),
    PitchOrLinearSize |-> U32At(buf, HeaderOffset + 16),
    Depth             |-> U32At(buf, HeaderOffset + 20),
    MipMapCount       |-> U32At(buf, HeaderOffset + 24),
    Reserved1         |-> [i \in 1..11 |-> U32At(buf, HeaderOffset + 28 + 4 * (i - 1))],
    PixelFormatDef    |->
      [ Size        |-> U32At(buf, HeaderOffset + 72),
        Flags       |-> U32At(buf, HeaderOffset + 76),
        FourCC      |-> U32At(buf, HeaderOffset + 80),
        RGBBitCount |-> U32At(buf, HeaderOffset + 84),
        RBitMask    |-> U32At(buf, HeaderOffset + 88),
        GBitMask    |-> U32At(buf, HeaderOffset + 92),
        BBitMask    |-> U32At(buf, HeaderOffset + 96),
        ABitMask    |-> U32At(buf, HeaderOffset + 100) ],
    Caps              |-> U32At(buf, HeaderOffset + 104),
    Caps2             |-> U32At(buf, HeaderOffset + 108),
    Caps3             |-> U32At(buf, HeaderOffset + 112),
    Caps4             |-> U32At(buf, HeaderOffset + 116),
    Reserved2         |-> U32At(buf, HeaderOffset + 120) ]

RECURSIVE WordsToBytes(_)
WordsToBytes(ws) ==
  IF ws = <<>> THEN <<>> ELSE LE32(Head(ws)) \o WordsToBytes(Tail(ws))

\* (const char* )&aResHeader, sizeof(aResHeader): the struct's 124 bytes
EncodeHeader(h) ==
  WordsToBytes(
    <<h.Size, h.Flags, h.Height, h.Width, h.PitchOrLinearSize, h.Depth, h.MipMapCount>>
    \o h.Reserved1
    \o <<h.PixelFormatDef.Size, h.PixelFormatDef.Flags, h.PixelFormatDef.FourCC,
         h.PixelFormatDef.RGBBitCount, h.PixelFormatDef.RBitMask,
         h.PixelFormatDef.GBitMask, h.PixelFormatDef.BBitMask,
         h.PixelFormatDef.ABitMask>>
    \o <<h.Caps, h.Caps2, h.Caps3, h.Caps4, h.Reserved2>>)

IscompleteCubemap(h) == BitAnd(h.Caps2, DDSCompleteCubemap) # 0

\* faulty variant: Caps2 = DDSCompleteCubemap, losing the side's other bits
SetCubemapAssign(h) == [h EXCEPT !.Caps2 = DDSCompleteCubemap]

\* aResHeader.Caps2 |= DDSFileHeader::DDSCompleteCubemap
SetCompleteCubemap(h) == [h EXCEPT !.Caps2 = BitOr(h.Caps2, DDSCompleteCubemap)]

---------------------------------------------------------------------------
(* The program state *)

Terminal == {"done", "failed", "crashed"}

NoExit == 0 - 1
NoSide == 0 - 1

StartState ==
  [ pc              |-> "start",
    anArgIter       |-> 1,
    anInput         |-> <<>>,
    anOutput        |-> "",
    aSide           |-> 0,
    aBuffer         |-> <<>>,
    anInHeaders     |-> <<>>,    \* the entries assigned so far, [0 .. Len-1]
    aResHeader      |-> <<>>,    \* <<h>> once assigned
    aDimIter        |-> 0,
    aNbMipComplete  |-> 0,
    aResFile        |-> [isOpen |-> FALSE, good |-> TRUE, data |-> <<>>],
    rc              |-> NoExit,  \* the exit status of main
    err             |-> "None",  \* the error reported on std::cerr
    errSide         |-> NoSide,  \* the side whose path the error names
    helpPrinted     |-> FALSE,
    warned          |-> {},      \* the sides that got the mip warning
    opened          |-> <<>>,    \* the paths passed to anInFile.open, in order
    created         |-> FALSE,   \* aResFile.open was called
    hdrWrites       |-> 0,       \* the writes of the header
    oobRead         |-> FALSE ]  \* a read outside aBuffer happened

Fail(s, kind, side) ==
  [s EXCEPT !.pc = "failed", !.rc = 1, !.err = kind, !.errSide = side]

Crash(s) == [s EXCEPT !.pc = "crashed"]

\* lines 59-64
CheckNbArgs(s, args) ==
  IF Len(args) + 1 <= 1
  THEN [Fail(s, "Usage", NoSide) EXCEPT !.helpPrinted = TRUE]
  ELSE [s EXCEPT !.pc = "parse", !.anArgIter = 1]

\* lines 68-85, one iteration of the loop.  With "-o" last, theArgVec[++anArgIter]
\* is theArgVec[theNbArgs], the null pointer, and assigning it to a std::string
\* is undefined: the run traps, or goes on with an empty anOutput.
ParseArg(s, args, trap) ==
  LET anArg == args[s.anArgIter] IN
  IF anArg = "-help" \/ anArg = "--help"
  THEN [Fail(s, "Help", NoSide) EXCEPT !.helpPrinted = TRUE]
  ELSE IF anArg = "-o"
  THEN IF s.anArgIter + 1 <= Len(args)
       THEN [s EXCEPT !.anOutput = args[s.anArgIter + 1], !.anArgIter = s.anArgIter + 2]
       ELSE IF trap THEN Crash(s)
       ELSE [s EXCEPT !.anOutput = "", !.anArgIter = s.anArgIter + 2]
  ELSE [s EXCEPT !.anInput = Append(s.anInput, anArg), !.anArgIter = s.anArgIter + 1]

\* lines 86-91
CheckInput(s) ==
  IF Len(s.anInput) # NbSides \/ s.anOutput = ""
  THEN Fail(s, "Usage", NoSide)
  ELSE [s EXCEPT !.pc = "open", !.aSide = 0]

\* lines 99-116: open, size, resize, read
OpenRead(s, file) ==
  LET o == [s EXCEPT !.opened = Append(s.opened, s.anInput[s.aSide + 1])] IN
  IF ~file.present THEN Fail(o, "Io", s.aSide)
  ELSE IF ~file.readOk
  THEN Fail([o EXCEPT !.aBuffer = file.data], "Io", s.aSide)
  ELSE [o EXCEPT !.aBuffer = file.data, !.pc = "magic"]

\* lines 118-123.  memcmp reads aBuffer[0..3] before aSize is looked at: with
\* fewer than 4 bytes it reads outside the buffer (for an empty vector, through
\* a null or stale pointer).  The run traps, or compares whatever is there and
\* then rejects the file on aSize < 128.
CheckMagic(s, trap) ==
  LET aSize == Len(s.aBuffer) IN
  IF aSize < MagicLen
  THEN IF trap THEN Crash([s EXCEPT !.oobRead = TRUE])
       ELSE Fail([s EXCEPT !.oobRead = TRUE], "NotDds", s.aSide)
  ELSE IF SubSeq(s.aBuffer, 1, MagicLen) # Magic \/ aSize < HeaderEnd
  THEN Fail(s, "NotDds", s.aSide)
  ELSE [s EXCEPT !.pc = "decode"]

Max(a, b) == IF a > b THEN a ELSE b

\* faulty variant: the pixel-format Size is not looked at
ValidateNoPfSize(s) ==
  LET aSrcHeader == DecodeHeader(s.aBuffer)
      d == [s EXCEPT !.anInHeaders = Append(s.anInHeaders, aSrcHeader)]
  IN
  IF \/ aSrcHeader.Size # HeaderSize
     \/ aSrcHeader.Width = 0
     \/ aSrcHeader.Height = 0
  THEN Fail(d, "Invalid", s.aSide)
  ELSE [d EXCEPT !.pc = "mip",
                 !.aNbMipComplete = 1,
                 !.aDimIter = IF aSrcHeader.Height > aSrcHeader.Width
                              THEN aSrcHeader.Height ELSE aSrcHeader.Width]

\* lines 125-141
Validate(s) ==
  LET aSrcHeader == DecodeHeader(s.aBuffer)
      d == [s EXCEPT !.anInHeaders = Append(s.anInHeaders, aSrcHeader)]
  IN
  IF \/ aSrcHeader.Size # HeaderSize
     \/ aSrcHeader.Width = 0
     \/ aSrcHeader.Height = 0
     \/ aSrcHeader.PixelFormatDef.Size # PixelFormatSize
  THEN Fail(d, "Invalid", s.aSide)
  ELSE [d EXCEPT !.pc = "mip",
                 !.aNbMipComplete = 1,
                 !.aDimIter = Max(aSrcHeader.Height, aSrcHeader.Width)]

\* faulty variant: the halving rounds up
MipIterRoundUp(s) ==
  [s EXCEPT !.aNbMipComplete = s.aNbMipComplete + 1,
            !.aDimIter = s.aDimIter - s.aDimIter \div 2]

\* line 142, one iteration: ++aNbMipComplete, aDimIter /= 2
MipIter(s) ==
  [s EXCEPT !.aNbMipComplete = s.aNbMipComplete + 1,
            !.aDimIter = s.aDimIter \div 2]

\* faulty variant: the mismatch is an error
MipFatal(s) ==
  IF s.aNbMipComplete # s.anInHeaders[s.aSide + 1].MipMapCount
  THEN Fail(s, "Invalid", s.aSide)
  ELSE [s EXCEPT !.pc = "square"]

\* lines 143-146, once the loop is over
MipWarn(s) ==
  LET aSrcHeader == s.anInHeaders[s.aSide + 1] IN
  IF s.aNbMipComplete # aSrcHeader.MipMapCount
  THEN [s EXCEPT !.warned = s.warned \cup {s.aSide}, !.pc = "square"]
  ELSE [s EXCEPT !.pc = "square"]

\* faulty variant: the squareness test is left out
CheckSquareSkipped(s) ==
  [s EXCEPT !.pc = IF s.aSide = 0 THEN "first" ELSE "cross"]

\* faulty variant: only the first side is tested for squareness
CheckSquareFirstOnly(s) ==
  IF s.aSide = 0 /\ s.anInHeaders[1].Width # s.anInHeaders[1].Height
  THEN Fail(s, "NotCube", s.aSide)
  ELSE [s EXCEPT !.pc = IF s.aSide = 0 THEN "first" ELSE "cross"]

\* lines 148-154
CheckSquare(s) ==
  LET aSrcHeader == s.anInHeaders[s.aSide + 1] IN
  IF aSrcHeader.Width # aSrcHeader.Height
  THEN Fail(s, "NotCube", s.aSide)
  ELSE [s EXCEPT !.pc = IF s.aSide = 0 THEN "first" ELSE "cross"]

\* lines 156-166
WriteHeader(s, openOk) ==
  LET aSrcHeader == s.anInHeaders[s.aSide + 1]
      aResHeader == SetCompleteCubemap(aSrcHeader)
      h == [s EXCEPT !.aResHeader = <<aResHeader>>, !.created = TRUE]
  IN
  IF ~openOk
  THEN Fail([h EXCEPT !.aResFile.good = FALSE], "Io", NoSide)
  ELSE [h EXCEPT !.aResFile = [isOpen |-> TRUE, good |-> TRUE,
                               data |-> Magic \o EncodeHeader(aResHeader)],
                 !.hdrWrites = s.hdrWrites + 1,
                 !.pc = "append"]

\* lines 170-177
CrossCheck(s) ==
  LET aSrcHeader == s.anInHeaders[s.aSide + 1]
      aFirstHeader == s.anInHeaders[1]
  IN
  IF \/ aSrcHeader.Width # aFirstHeader.Width
     \/ aSrcHeader.Height # aFirstHeader.Height
     \/ aSrcHeader.PixelFormatDef.FourCC # aFirstHeader.PixelFormatDef.FourCC
  THEN Fail(s, "Inconsistent", s.aSide)
  ELSE [s EXCEPT !.pc = "append"]

\* &aBuffer[128], aSize - 128
Payload(buf) == SubSeq(buf, HeaderEnd + 1, Len(buf))

\* line 180 and the loop's ++aSide
AppendPayload(s) ==
  [s EXCEPT !.aResFile.data = s.aResFile.data \o Payload(s.aBuffer),
            !.aSide = s.aSide + 1,
            !.pc = IF s.aSide + 1 < NbSides THEN "open" ELSE "close"]

\* faulty variant: the stream's state after close is not looked at
CloseResultUnchecked(s, closeOk) ==
  [s EXCEPT !.aResFile.isOpen = FALSE,
            !.aResFile.good = s.aResFile.good /\ closeOk,
            !.pc = "done", !.rc = 0]

\* lines 182-189
CloseResult(s, closeOk) ==
  LET c == [s EXCEPT !.aResFile.isOpen = FALSE,
                     !.aResFile.good = s.aResFile.good /\ closeOk]
  IN
  IF ~c.aResFile.good
  THEN Fail(c, "Io", NoSide)
  ELSE [c EXCEPT !.pc = "done", !.rc = 0]

---------------------------------------------------------------------------
(* The files the run may find.  A file is what anInFile.open and read make  *)
(* of it: whether it opens, whether the read returns all of it, its bytes.  *)

OffSize == HeaderOffset + 0
OffFlags == HeaderOffset + 4
OffHeight == HeaderOffset + 8
OffWidth == HeaderOffset + 12
OffMipMapCount == HeaderOffset + 24
OffPfSize == HeaderOffset + 72
OffFourCC == HeaderOffset + 80
OffCaps2 == HeaderOffset + 108
OffReserved2 == HeaderOffset + 120

FourCCDXT1 == U32At(<<68, 88, 84, 49>>, 0)
FourCCDXT5 == U32At(<<68, 88, 84, 53>>, 0)

\* Caps2 bits of a single-face file: none, or DDSCAPS2_CUBEMAP | POSITIVEX | VOLUME
Caps2Rich == 512 + 1024 + 2097152

BaseHeader(d, rich) ==
  [ Size              |-> HeaderSize,
    Flags             |-> 659463,
    Height            |-> d,
    Width             |-> d,
    PitchOrLinearSize |-> 8 * d * d,
    Depth             |-> 0,
    MipMapCount       |-> d,
    Reserved1         |-> [i \in 1..11 |-> 300 * i],
    PixelFormatDef    |->
      [ Size |-> PixelFormatSize, Flags |-> 4, FourCC |-> FourCCDXT1,
        RGBBitCount |-> 0, RBitMask |-> 0, GBitMask |-> 0, BBitMask |-> 0,
        ABitMask |-> 0 ],
    Caps              |-> 4198408,
    Caps2             |-> IF rich THEN Caps2Rich ELSE 0,
    Caps3             |-> 0,
    Caps4             |-> 0,
    Reserved2         |-> 70000 ]

PayloadOf(side, n) == [k \in 1..n |-> 16 * side + k]

BaseFile(d, rich) == Magic \o EncodeHeader(BaseHeader(d, rich)) \o PayloadOf(0, 1)

BaseFiles == {BaseFile(d, rich) : d \in 1..MaxDim, rich \in BOOLEAN}

SetU32(buf, off, v) ==
  [i \in 1..Len(buf) |-> IF i > off /\ i <= off + 4 THEN LE32(v)[i - off] ELSE buf[i]]

Truncate(buf, n) == SubSeq(buf, 1, n)

\* a file that passes wherever f passes, and differs from f in fields the
\* program neither checks nor copies
Benign(f, side) ==
  SetU32(SetU32(SetU32(SetU32(Truncate(f, HeaderEnd),
    OffMipMapCount, 7), OffCaps2, 2097152 + 256), OffFlags, 4096), OffReserved2, 9)
  \o PayloadOf(side, MaxPayload)

TruncLens == {0, 2, MagicLen, HeaderEnd - 1}

Accepted(f, side) ==
  IF side = 0 THEN {f} ELSE {f, Benign(f, side), Truncate(f, HeaderEnd)}

Rejected(f) ==
  {Truncate(f, n) : n \in TruncLens}
    \cup {SetU32(f, 0, 0), SetU32(SetU32(f, 0, 0), OffSize, 0)}
    \cup {SetU32(f, OffSize, HeaderSize - 1), SetU32(f, OffPfSize, 0)}
    \cup {SetU32(SetU32(f, OffWidth, w), OffHeight, h) : w, h \in 0..MaxDim}
    \cup {SetU32(f, OffFourCC, FourCCDXT5)}

Readable(data) == [present |-> TRUE, readOk |-> TRUE, data |-> data]
Absent == [present |-> FALSE, readOk |-> FALSE, data |-> <<>>]
ShortRead(data) == [present |-> TRUE, readOk |-> FALSE, data |-> data]

\* the files the side being opened may turn out to be: side 0 is any variant of
\* a base file, a later side any variant of side 0's file
FilesOf(f, side) ==
  {Readable(g) : g \in Accepted(f, side) \cup Rejected(f)} \cup {Absent, ShortRead(f)}

Candidates(s, fsys) ==
  LET path == s.anInput[s.aSide + 1] IN
  IF path \in DOMAIN fsys THEN {fsys[path]}
  ELSE IF s.aSide = 0 THEN UNION {FilesOf(b, 0) : b \in BaseFiles}
  ELSE FilesOf(fsys[s.anInput[1]].data, s.aSide)

Extend(fsys, path, file) ==
  [p \in DOMAIN fsys \cup {path} |-> IF p \in DOMAIN fsys THEN fsys[p] ELSE file]

NoFiles == [p \in {} |-> Absent]

---------------------------------------------------------------------------
(* The argument lists *)

SidePaths == <<"px.dds", "nx.dds", "py.dds", "ny.dds", "pz.dds", "nz.dds">>
OutPath == "result.dds"

Tokens == {"-help", "--help", "-o", "px.dds", OutPath}

RECURSIVE SeqsUpTo(_, _)
SeqsUpTo(S, n) ==
  IF n = 0 THEN {<<>>}
  ELSE LET shorter == SeqsUpTo(S, n - 1) IN
       shorter \cup {Append(q, x) : q \in shorter, x \in S}

UsageArgs == <<"px.dds", "nx.dds", "py.dds", "ny.dds", "pz.dds", "nz.dds", "-o", "result.dds">>

LongArgs ==
  { UsageArgs,
    SidePaths,
    SidePaths \o <<"-o">>,
    SidePaths \o <<"-o", "">>,
    SubSeq(SidePaths, 1, 5) \o <<"-o", OutPath>>,
    SidePaths \o <<"extra.dds", "-o", OutPath>>,
    UsageArgs \o <<"--help">>,
    <<"-help">> \o UsageArgs }

ArgLists == SeqsUpTo(Tokens, MaxArgs) \cup LongArgs

---------------------------------------------------------------------------
(* The run *)

Init ==
  /\ argv \in ArgLists
  /\ fs = NoFiles
  /\ st = StartState
  /\ fs2 = NoFiles
  /\ st2 = StartState

Start ==
  /\ st.pc = "start"
  /\ st' = CheckNbArgs(st, argv)
  /\ UNCHANGED <<argv, fs, fs2, st2>>

Parse ==
  /\ st.pc = "parse"
  /\ st.anArgIter < Len(argv) + 1
  /\ \E trap \in BOOLEAN : st' = ParseArg(st, argv, trap)
  /\ UNCHANGED <<argv, fs, fs2, st2>>

ParseEnd ==
  /\ st.pc = "parse"
  /\ ~(st.anArgIter < Len(argv) + 1)
  /\ st' = CheckInput(st)
  /\ UNCHANGED <<argv, fs, fs2, st2>>

Open ==
  /\ st.pc = "open"
  /\ \E file \in Candidates(st, fs) :
       /\ st' = OpenRead(st, file)
       /\ fs' = Extend(fs, st.anInput[st.aSide + 1], file)
  /\ UNCHANGED <<argv, fs2, st2>>

MagicCheck ==
  /\ st.pc = "magic"
  /\ \E trap \in BOOLEAN : st' = CheckMagic(st, trap)
  /\ UNCHANGED <<argv, fs, fs2, st2>>

Decode ==
  /\ st.pc = "decode"
  /\ st' = Validate(st)
  /\ UNCHANGED <<argv, fs, fs2, st2>>

MipLoop ==
  /\ st.pc = "mip"
  /\ st.aDimIter > 1
  /\ st' = MipIter(st)
  /\ UNCHANGED <<argv, fs, fs2, st2>>

MipEnd ==
  /\ st.pc = "mip"
  /\ ~(st.aDimIter > 1)
  /\ st' = MipWarn(st)
  /\ UNCHANGED <<argv, fs, fs2, st2>>

Square ==
  /\ st.pc = "square"
  /\ st' = CheckSquare(st)
  /\ UNCHANGED <<argv, fs, fs2, st2>>

First ==
  /\ st.pc = "first"
  /\ \E openOk \in BOOLEAN : st' = WriteHeader(st, openOk)
  /\ UNCHANGED <<argv, fs, fs2, st2>>

Cross ==
  /\ st.pc = "cross"
  /\ st' = CrossCheck(st)
  /\ UNCHANGED <<argv, fs, fs2, st2>>

Write ==
  /\ st.pc = "append"
  /\ st' = AppendPayload(st)
  /\ UNCHANGED <<argv, fs, fs2, st2>>

Close ==
  /\ st.pc = "close"
  /\ \E closeOk \in BOOLEAN : st' = CloseResult(st, closeOk)
  /\ UNCHANGED <<argv, fs, fs2, st2>>

Next ==
  \/ Start \/ Parse \/ ParseEnd \/ Open \/ MagicCheck \/ Decode \/ MipLoop
  \/ MipEnd \/ Square \/ First \/ Cross \/ Write \/ Close

Spec == Init /\ [][Next]_vars

---------------------------------------------------------------------------
(* The mip loop alone, entered from the state main is in at line 140 after  *)
(* reading a first side of w x h.                                           *)

ParsedState ==
  [StartState EXCEPT !.pc = "open", !.anInput = SidePaths, !.anOutput = OutPath,
                     !.anArgIter = Len(UsageArgs) + 1]

MipDims == (1..MaxMipDim) \cup {256, 65535, 2147483647}

SizedFile(w, h) ==
  Readable(SetU32(SetU32(BaseFile(1, FALSE), OffWidth, w), OffHeight, h))

InitMips ==
  /\ argv = UsageArgs
  /\ \E w, h \in MipDims :
       /\ fs = Extend(NoFiles, SidePaths[1], SizedFile(w, h))
       /\ st = Validate(CheckMagic(OpenRead(ParsedState, SizedFile(w, h)), FALSE))
  /\ fs2 = NoFiles
  /\ st2 = StartState

NextMips == MipLoop \/ MipEnd

SpecMips == InitMips /\ [][NextMips]_vars /\ WF_vars(NextMips)

---------------------------------------------------------------------------
(* Two executions side by side, over the same arguments and over files that *)
(* differ only in the declared MipMapCount, taking the same steps.          *)

MipAlt == 5

MipVariants(file) ==
  IF file.present /\ Len(file.data) >= OffMipMapCount + 4
  THEN {file, [file EXCEPT !.data = SetU32(file.data, OffMipMapCount, MipAlt)]}
  ELSE {file}

PairFilesOf(f, side) ==
  {Readable(g) : g \in {f} \cup Rejected(f)} \cup {Absent, ShortRead(f)}

PairCandidates(s, fsys) ==
  LET path == s.anInput[s.aSide + 1] IN
  IF path \in DOMAIN fsys THEN {fsys[path]}
  ELSE IF s.aSide = 0 THEN UNION {PairFilesOf(b, 0) : b \in BaseFiles}
  ELSE PairFilesOf(fsys[s.anInput[1]].data, s.aSide)

\* what the environment decides at the step s is about to take
Choices(s, fsys) ==
  IF s.pc = "open"
  THEN UNION {{[trap |-> FALSE, ok |-> TRUE, file |-> f, file2 |-> g] :
                 g \in MipVariants(f)} : f \in PairCandidates(s, fsys)}
  ELSE IF s.pc \in {"parse", "magic"}
  THEN {[trap |-> b, ok |-> TRUE, file |-> Absent, file2 |-> Absent] : b \in BOOLEAN}
  ELSE IF s.pc \in {"first", "close"}
  THEN {[trap |-> FALSE, ok |-> b, file |-> Absent, file2 |-> Absent] : b \in BOOLEAN}
  ELSE {[trap |-> FALSE, ok |-> TRUE, file |-> Absent, file2 |-> Absent]}

\* the step main takes from s: lines 59-189
Step(s, args, trap, ok, file) ==
  CASE s.pc = "start"  -> CheckNbArgs(s, args)
    [] s.pc = "parse"  -> IF s.anArgIter < Len(args) + 1
                          THEN ParseArg(s, args, trap) ELSE CheckInput(s)
    [] s.pc = "open"   -> OpenRead(s, file)
    [] s.pc = "magic"  -> CheckMagic(s, trap)
    [] s.pc = "decode" -> Validate(s)
    [] s.pc = "mip"    -> IF s.aDimIter > 1 THEN MipIter(s) ELSE MipWarn(s)
    [] s.pc = "square" -> CheckSquare(s)
    [] s.pc = "first"  -> WriteHeader(s, ok)
    [] s.pc = "cross"  -> CrossCheck(s)
    [] s.pc = "append" -> AppendPayload(s)
    [] s.pc = "close"  -> CloseResult(s, ok)
    [] OTHER           -> s

FsAfter(s, fsys, file) ==
  IF s.pc = "open" THEN Extend(fsys, s.anInput[s.aSide + 1], file) ELSE fsys

InitPair ==
  /\ argv = UsageArgs
  /\ fs = NoFiles
  /\ st = StartState
  /\ fs2 = NoFiles
  /\ st2 = StartState

PairStep ==
  /\ st.pc \notin Terminal \/ st2.pc \notin Terminal
  /\ \E e \in Choices(IF st.pc \in Terminal THEN st2 ELSE st, fs) :
       /\ st' = Step(st, argv, e.trap, e.ok, e.file)
       /\ fs' = FsAfter(st, fs, e.file)
       /\ st2' = Step(st2, argv, e.trap, e.ok, e.file2)
       /\ fs2' = FsAfter(st2, fs2, e.file2)
  /\ UNCHANGED argv

SpecPair == InitPair /\ [][PairStep]_vars

---------------------------------------------------------------------------
(* What the claims speak of, read off the files' bytes *)

NbRead == Len(st.opened)
Input(i) == fs[st.anInput[i + 1]]
Data(i) == Input(i).data
Usable(f) == f.present /\ f.readOk
Ended == st.pc \in Terminal
Output == st.aResFile.data

HasMagic(d) == Len(d) >= MagicLen /\ SubSeq(d, 1, MagicLen) = Magic
IsDds(d) == HasMagic(d) /\ Len(d) >= HeaderEnd
WidthOf(d) == U32At(d, OffWidth)
HeightOf(d) == U32At(d, OffHeight)
FieldsOk(d) ==
  /\ U32At(d, OffSize) = 124
  /\ U32At(d, OffPfSize) = 32
  /\ WidthOf(d) # 0
  /\ HeightOf(d) # 0
SameAsFirst(d, d0) ==
  /\ WidthOf(d) = WidthOf(d0)
  /\ HeightOf(d) = HeightOf(d0)
  /\ U32At(d, OffFourCC) = U32At(d0, OffFourCC)
PassesAll(i) ==
  /\ Usable(Input(i))
  /\ IsDds(Data(i))
  /\ FieldsOk(Data(i))
  /\ WidthOf(Data(i)) = HeightOf(Data(i))
  /\ SameAsFirst(Data(i), Data(0))

\* bits 9..15 of a word, the bits of 0xFE00
CubeBits(w) == (w \div 512) % 128

\* the 128 leading bytes of d0 with bits 9..15 of Caps2 all set
ExpectedHeader(d0) ==
  SetU32(SubSeq(d0, 1, 128), OffCaps2,
         U32At(d0, OffCaps2) - 512 * CubeBits(U32At(d0, OffCaps2)) + 65024)

RECURSIVE Payloads(_)
Payloads(n) ==
  IF n = 0 THEN <<>>
  ELSE Payloads(n - 1) \o SubSeq(Data(n - 1), 129, Len(Data(n - 1)))

RECURSIVE PayloadSizes(_)
PayloadSizes(n) ==
  IF n = 0 THEN 0 ELSE PayloadSizes(n - 1) + (Len(Data(n - 1)) - 128)

ExpectedOut(n) == ExpectedHeader(Data(0)) \o Payloads(n)

---------------------------------------------------------------------------
\* C1: when all six inputs pass every check (and no I/O error is reported on
\* the result file), the run ends with status 0 and the output is exactly the
\* magic, side 0's header with Caps2 | 0xFE00 and nothing else changed, then the
\* six payloads in input order; its length is 128 + the sum of (size_i - 128)
\* and its decoded header is a complete cubemap.
C1_OutputExact ==
  (/\ Ended
   /\ NbRead = 6
   /\ \A i \in 0..5 : PassesAll(i)
   /\ st.err # "Io")
  => /\ st.pc = "done"
     /\ st.rc = 0
     /\ Output = ExpectedOut(6)
     /\ Len(Output) = 128 + PayloadSizes(6)
     /\ IscompleteCubemap(DecodeHeader(Output))
     /\ CubeBits(U32At(Output, OffCaps2)) = 127

C1_Witness ==
  /\ st.pc = "done"
  /\ \A i \in 0..5 : CubeBits(U32At(Data(i), OffCaps2)) = 0
  /\ \E i \in 0..5 : Len(Data(i)) = 128
  /\ \E i \in 1..5 : Len(Data(i)) > 129 /\ Data(i) # Data(0)

\* C2 (as stated): an input without the magic or under 128 bytes makes the run
\* fail with NotDds; for side 0 the output is never opened, for side i > 0 the
\* output is the magic, the header and the payloads of sides 0..i-1.
C2_NotDdsClaim ==
  \A i \in 0..(NbRead - 1) :
    (Ended /\ Usable(Input(i)) /\ ~IsDds(Data(i)))
    => /\ st.pc = "failed"
       /\ st.err = "NotDds"
       /\ st.errSide = i
       /\ (i = 0 => ~st.created /\ Output = <<>>)
       /\ (i > 0 => Output = ExpectedOut(i))

\* the case of C3: sides 0 and 1 are the same valid file, side 2 is that file
\* with another (non-zero) width
C3Case ==
  /\ NbRead >= 3
  /\ PassesAll(0)
  /\ Usable(Input(1)) /\ Data(1) = Data(0)
  /\ Usable(Input(2)) /\ Len(Data(2)) = Len(Data(0))
  /\ WidthOf(Data(2)) # WidthOf(Data(0))
  /\ WidthOf(Data(2)) # 0
  /\ Data(2) = SetU32(Data(0), OffWidth, WidthOf(Data(2)))

\* C3 (as stated): side 2 with another width than side 0, all else equal and
\* valid, makes the run fail with Inconsistent, naming side 2.
C3_InconsistentClaim ==
  (Ended /\ C3Case) => st.pc = "failed" /\ st.err = "Inconsistent" /\ st.errSide = 2

\* C3 (amended): side 2 with another width than side 0, all else equal and
\* valid, is not square, and the run fails at side 2 with NotCube, status 1,
\* the output holding the header and the payloads of sides 0 and 1.
C3_NotCubeAtSide2 ==
  (Ended /\ C3Case)
  => /\ st.pc = "failed"
     /\ st.rc = 1
     /\ st.err = "NotCube"
     /\ st.errSide = 2
     /\ Output = ExpectedOut(2)

C3_Witness == Ended /\ C3Case /\ WidthOf(Data(0)) = 1

DeclaresInvalid(d) ==
  \/ Len(d) >= OffSize + 4 /\ U32At(d, OffSize) # 124
  \/ Len(d) >= OffPfSize + 4 /\ U32At(d, OffPfSize) # 32
  \/ Len(d) >= OffWidth + 4 /\ WidthOf(d) = 0
  \/ Len(d) >= OffHeight + 4 /\ HeightOf(d) = 0

\* C4 (as stated): an input declaring Size # 124, pixel-format Size # 32 or a
\* zero dimension makes the run fail with Invalid, status 1, whichever side it
\* is and whatever else the files hold.
C4_InvalidClaim ==
  \A i \in 0..(NbRead - 1) :
    (Ended /\ Usable(Input(i)) /\ DeclaresInvalid(Data(i)))
    => st.pc = "failed" /\ st.err = "Invalid" /\ st.rc = 1

\* C4 (amended): a side that is read, has the magic and at least 128 bytes, and
\* declares Size # 124, pixel-format Size # 32 or a zero dimension makes the
\* run fail at that side with Invalid, status 1; no later side is opened.
C4_InvalidAtSide ==
  \A i \in 0..(NbRead - 1) :
    (Ended /\ Usable(Input(i)) /\ IsDds(Data(i)) /\ DeclaresInvalid(Data(i)))
    => /\ st.pc = "failed"
       /\ st.err = "Invalid"
       /\ st.errSide = i
       /\ st.rc = 1
       /\ NbRead = i + 1

C4_Witness ==
  /\ Ended
  /\ NbRead = 4
  /\ Usable(Input(3)) /\ IsDds(Data(3))
  /\ U32At(Data(3), OffPfSize) # 32

\* C5 (as stated): a side with width # height makes the run fail with NotCube;
\* side 0 before the output is opened, side i > 0 before its payload is appended.
C5_NotCubeClaim ==
  \A i \in 0..(NbRead - 1) :
    (/\ Ended
     /\ Usable(Input(i))
     /\ Len(Data(i)) >= OffWidth + 4
     /\ WidthOf(Data(i)) # HeightOf(Data(i)))
    => /\ st.pc = "failed"
       /\ st.err = "NotCube"
       /\ (i = 0 => ~st.created)
       /\ (i > 0 => Output = ExpectedOut(i))

\* C5 (amended): a side that is read, has the magic, at least 128 bytes and
\* valid header fields, and has width # height makes the run fail at that side
\* with NotCube, status 1; side 0 before the output is opened, side i > 0 before
\* its payload is appended.
C5_NotCubeAtSide ==
  \A i \in 0..(NbRead - 1) :
    (/\ Ended
     /\ Usable(Input(i))
     /\ IsDds(Data(i))
     /\ FieldsOk(Data(i))
     /\ WidthOf(Data(i)) # HeightOf(Data(i)))
    => /\ st.pc = "failed"
       /\ st.err = "NotCube"
       /\ st.errSide = i
       /\ st.rc = 1
       /\ NbRead = i + 1
       /\ (i = 0 => ~st.created /\ Output = <<>>)
       /\ (i > 0 => Output = ExpectedOut(i))

C5_Witness ==
  /\ Ended
  /\ NbRead = 5
  /\ Usable(Input(4)) /\ IsDds(Data(4)) /\ FieldsOk(Data(4))
  /\ WidthOf(Data(4)) # HeightOf(Data(4))
  /\ Len(Output) > 128

MipBytes == (OffMipMapCount + 1)..(OffMipMapCount + 4)

\* C6: two runs whose files differ only in the declared MipMapCount are, step
\* for step, at the same place with the same status and the same error, and
\* their outputs differ at most in the MipMapCount bytes of the header; a
\* reported error always ends the run with status 1.
C6_MipCountOnlyWarns ==
  /\ st.pc = st2.pc
  /\ st.rc = st2.rc
  /\ st.err = st2.err
  /\ st.errSide = st2.errSide
  /\ st.opened = st2.opened
  /\ st.created = st2.created
  /\ Len(st.aResFile.data) = Len(st2.aResFile.data)
  /\ \A k \in 1..Len(st.aResFile.data) :
       st.aResFile.data[k] # st2.aResFile.data[k] => k \in MipBytes
  /\ \A s \in {st, st2} : s.err # "None" => s.pc = "failed" /\ s.rc = 1
  /\ \A s \in {st, st2} : s.pc = "done" => s.err = "None"

C6_Witness ==
  /\ st.pc = "done"
  /\ st2.pc = "done"
  /\ st.warned = {}
  /\ st2.warned = 0..5
  /\ st.aResFile.data # st2.aResFile.data

RECURSIVE Pow2(_)
Pow2(k) == IF k = 0 THEN 1 ELSE 2 * Pow2(k - 1)

\* floor(log2(D)) for 1 <= D < 2^31: the k with 2^k <= D < 2^(k+1)
FloorLog2(D) == CHOOSE k \in 0..30 : Pow2(k) <= D /\ D \div 2 < Pow2(k)

\* C7: when the halving loop is over, the count is 1 + floor(log2(D)) for
\* D = max(width, height): 9 for 256x256, 1 for 1x1; and the loop is over
\* eventually for every D.
C7_MipCount ==
  /\ [](st.pc = "square" =>
          /\ st.aNbMipComplete
               = 1 + FloorLog2(Max(WidthOf(Data(0)), HeightOf(Data(0))))
          /\ (WidthOf(Data(0)) = 256 /\ HeightOf(Data(0)) = 256
                => st.aNbMipComplete = 9)
          /\ (WidthOf(Data(0)) = 1 /\ HeightOf(Data(0)) = 1
                => st.aNbMipComplete = 1))
  /\ <>(st.pc = "square")

C7_Witness ==
  /\ st.pc = "square"
  /\ WidthOf(Data(0)) = 256
  /\ HeightOf(Data(0)) = 3
  /\ st.aNbMipComplete = 9

\* the argument list, read without the program: the places where "-o" stands
\* as an option (not as the value of an earlier "-o")
RECURSIVE OptionPlaces(_, _)
OptionPlaces(args, i) ==
  IF i > Len(args) THEN {}
  ELSE IF args[i] = "-o" THEN {i} \cup OptionPlaces(args, i + 2)
  ELSE OptionPlaces(args, i + 1)

ValuePlaces(args) == {i + 1 : i \in OptionPlaces(args, 1)} \cap (1..Len(args))

NbPositional(args) ==
  Cardinality((1..Len(args)) \ (OptionPlaces(args, 1) \cup ValuePlaces(args)))

OutputOmitted(args) == ValuePlaces(args) = {}

HelpPresent(args) == \E i \in 1..Len(args) : args[i] \in {"-help", "--help"}

\* C8 (as stated): with other than six positional paths, or no output path
\* (no -o, or -o last), or a help flag, the program exits with status 1 and
\* opens, reads and creates no file.
C8_UsageClaim ==
  (Ended /\ (NbPositional(argv) # 6 \/ OutputOmitted(argv) \/ HelpPresent(argv)))
  => st.rc = 1 /\ st.opened = <<>> /\ ~st.created

IsPrefix(p, q) == Len(p) <= Len(q) /\ SubSeq(q, 1, Len(p)) = p

C9_State ==
  /\ IsPrefix(st.opened, st.anInput)
  /\ NbRead <= st.aSide + 1
  /\ st.aSide <= NbRead
  /\ (Ended /\ st.errSide # NoSide => NbRead = st.errSide + 1)
  /\ st.hdrWrites <= 1
  /\ (st.hdrWrites = 0 => Output = <<>>)
  /\ (st.hdrWrites = 1 =>
        /\ PassesAll(0)
        /\ IsPrefix(ExpectedHeader(Data(0)), Output)
        /\ \E n \in 0..NbRead : Output = ExpectedOut(n))
  /\ (st.rc = 0 =>
        /\ st.pc = "done"
        /\ st.aSide = 6
        /\ NbRead = 6
        /\ Output = ExpectedOut(6)
        /\ st.aResFile.good
        /\ ~st.aResFile.isOpen)

C9_Step ==
  /\ (st.pc \in Terminal => st' = st)
  /\ IsPrefix(st.opened, st'.opened)
  /\ Len(st'.opened) <= Len(st.opened) + 1
  /\ IsPrefix(st.aResFile.data, st'.aResFile.data)
  /\ (st'.hdrWrites # st.hdrWrites =>
        st.aResFile.data = <<>> /\ st.aSide = 0 /\ Len(st.opened) = 1)
  /\ (Len(st'.opened) # Len(st.opened) =>
        Len(st.aResFile.data) = (IF st.aSide = 0 THEN 0 ELSE 128) + PayloadSizes(st.aSide))

\* C9: sides are opened in input order; after a failure nothing more is
\* opened or written; the header is written once, after side 0 passed every
\* check and before any payload; status 0 only with all six payloads appended
\* and the result stream good after close.
C9_OrderAndTerminal == []C9_State /\ [][C9_Step]_vars

C9_Witness ==
  /\ st.pc = "failed"
  /\ st.err = "Inconsistent"
  /\ st.errSide = 3
  /\ NbRead = 4
  /\ st.hdrWrites = 1
  /\ Output = ExpectedOut(3)

\* C10 (as stated): no read outside the buffer, and every file under 128 bytes
\* is rejected as not DDS.
C10_NoReadPastEndClaim ==
  /\ ~st.oobRead
  /\ \A i \in 0..(NbRead - 1) :
       (Ended /\ Usable(Input(i)) /\ Len(Data(i)) < 128)
       => st.pc = "failed" /\ st.err = "NotDds"

====
